---- MODULE Spec2Model ----
(***************************************************************************)
(* The scaffolder workflow runner (NunjucksWorkflowRunner.ts): execute,    *)
(* render and the scaffoldingTracker, as a state machine.  One execute     *)
(* call runs one task; every action below is the code between two awaits.  *)
(***************************************************************************)
EXTENDS Integers, Sequences, FiniteSets, TLC

(***************************************************************************)
(* JSON values (JsonValue), tagged by their JavaScript type.               *)
(* A string is the list of the segments the template lexer cuts it into:   *)
(* literal text (data) and ${{ ... }} expressions (var).  An expression    *)
(* records whether its source text runs over a line break (nl); raise is   *)
(* an expression whose evaluation throws, unclosed a ${{ without its }}.   *)
(***************************************************************************)
Undef == [k |-> "undefined"]
Null == [k |-> "null"]
Num(n) == [k |-> "number", n |-> n]
Bool(b) == [k |-> "boolean", b |-> b]
Str(segs) == [k |-> "string", s |-> segs]
Arr(a) == [k |-> "array", a |-> a]
Obj(o) == [k |-> "object", o |-> o]

Data(c) == [t |-> "data", c |-> c]
Var(p) == [t |-> "var", p |-> p, f |-> "none", nl |-> FALSE]
VarNl(p) == [t |-> "var", p |-> p, f |-> "none", nl |-> TRUE]
Raise == [t |-> "raise"]
Unclosed == [t |-> "unclosed"]
Text(c) == IF c = "" THEN Str(<<>>) ELSE Str(<<Data(c)>>)

\* The value an exception takes the place of.
Threw == [k |-> "threw"]

\* nunjucks member lookup: a path into the context, undefined when a link is missing.
RECURSIVE Lookup(_, _)
Lookup(v, path) ==
    IF path = <<>> THEN v
    ELSE IF v.k = "object" /\ Head(path) \in DOMAIN v.o
         THEN Lookup(v.o[Head(path)], Tail(path))
         ELSE Undef

\* The text of a string without expressions.
RECURSIVE TextOf(_)
TextOf(segs) ==
    IF segs = <<>> THEN "" ELSE Head(segs).c \o TextOf(Tail(segs))

\* JSON.stringify (the dump filter) on the values of the model.
Dump(v) ==
    CASE v.k = "number" -> ToString(v.n)
      [] v.k = "boolean" -> IF v.b THEN "true" ELSE "false"
      [] v.k = "string" -> "\"" \o TextOf(v.s) \o "\""
      [] v.k = "array" /\ v.a = <<>> -> "[]"
      [] v.k = "object" /\ DOMAIN v.o = {} -> "{}"
      [] OTHER -> ""

\* What the template engine prints for an expression without filter.
ToText(v) ==
    CASE v.k = "number" -> ToString(v.n)
      [] v.k = "boolean" -> IF v.b THEN "true" ELSE "false"
      [] v.k = "string" -> TextOf(v.s)
      [] v.k = "array" /\ v.a = <<>> -> ""
      [] v.k = "object" -> "[object Object]"
      [] OTHER -> ""

\* The values JSON.parse can give back in the model.
JsonUniverse ==
    {Num(0), Num(3), Bool(TRUE), Bool(FALSE), Text(""), Text("x"), Text("false"),
     Text("s3cr3t"), Text("<example>"), Text("https://repo/u1"),
     Arr(<<>>), Obj(<<>>)}

\* JSON.parse: the value whose JSON text is the input; a SyntaxError otherwise.
JsonParse(text) ==
    IF \E v \in JsonUniverse : Dump(v) = text
    THEN CHOOSE v \in JsonUniverse : Dump(v) = text
    ELSE Threw

\* parser.parse throws on a template it cannot parse.
parseThrows(segs) == \E j \in DOMAIN segs : segs[j].t = "unclosed"

\* renderTemplate throws: the template does not compile or an expression raises.
templateThrows(segs) == \E j \in DOMAIN segs : segs[j].t \in {"unclosed", "raise"}

\* SecureTemplater's renderTemplate: the rendered text of a template string.
RECURSIVE renderTemplate(_, _)
renderTemplate(segs, ctx) ==
    IF segs = <<>> THEN ""
    ELSE LET seg == Head(segs)
             out == IF seg.t = "data" THEN seg.c
                    ELSE IF seg.f = "dump" THEN Dump(Lookup(ctx, seg.p))
                    ELSE ToText(Lookup(ctx, seg.p))
         IN out \o renderTemplate(Tail(segs), ctx)

\* isSingleTemplateString: one parsed child, and that child is not literal text.
isSingleTemplateString(segs) ==
    Len(segs) = 1 /\ segs[1].t # "data"

\* value.replace(/\${{(.+)}}/g, '${{ ( $1 ) | dump }}'): `.` matches no line
\* break, so an expression running over one is left as it is.
wrappedDumped(segs) ==
    [j \in DOMAIN segs |->
        IF segs[j].t = "var" /\ ~segs[j].nl THEN [segs[j] EXCEPT !.f = "dump"] ELSE segs[j]]

\* The inner try block of the reviver fails and logger.error is called.
leafFailure(segs, ctx) ==
    \/ parseThrows(segs)
    \/ /\ isSingleTemplateString(segs)
       /\ \/ templateThrows(wrappedDumped(segs))
          \/ LET templated == renderTemplate(wrappedDumped(segs), ctx)
             IN templated # "" /\ JsonParse(templated) = Threw

\* A reviver whose fallback lets the exception of renderTemplate through.
renderLeafNoCatch(segs, ctx) ==
    LET fallback == IF templateThrows(segs) THEN Threw
                    ELSE LET templated == renderTemplate(segs, ctx)
                         IN IF templated = "" THEN Undef ELSE Text(templated)
    IN IF leafFailure(segs, ctx) THEN fallback
       ELSE IF isSingleTemplateString(segs)
       THEN LET templated == renderTemplate(wrappedDumped(segs), ctx)
            IN IF templated = "" THEN Undef ELSE JsonParse(templated)
       ELSE fallback

\* The reviver of render on one string leaf.
renderLeaf(segs, ctx) ==
    LET fallback == IF templateThrows(segs) THEN Str(segs)
                    ELSE LET templated == renderTemplate(segs, ctx)
                         IN IF templated = "" THEN Undef ELSE Text(templated)
    IN IF leafFailure(segs, ctx) THEN fallback
       ELSE IF isSingleTemplateString(segs)
       THEN LET templated == renderTemplate(wrappedDumped(segs), ctx)
            IN IF templated = "" THEN Undef ELSE JsonParse(templated)
       ELSE fallback

\* A reviver without its last `return value`: what is no string is dropped.
RECURSIVE renderStringsOnly(_, _)
renderStringsOnly(input, ctx) ==
    CASE input.k = "undefined" -> Threw
      [] input.k = "string" -> renderLeaf(input.s, ctx)
      [] input.k = "object" ->
            LET kept == {n \in DOMAIN input.o : renderStringsOnly(input.o[n], ctx) # Undef}
            IN Obj([n \in kept |-> renderStringsOnly(input.o[n], ctx)])
      [] input.k = "array" ->
            Arr([j \in DOMAIN input.a |-> renderStringsOnly(input.a[j], ctx)])
      [] OTHER -> Undef

\* render: JSON.parse(JSON.stringify(input), reviver), leaves first.
RECURSIVE render(_, _)
render(input, ctx) ==
    CASE input.k = "undefined" -> Threw
      [] input.k = "string" -> renderLeaf(input.s, ctx)
      [] input.k = "object" ->
            LET kept == {n \in DOMAIN input.o : render(input.o[n], ctx) # Undef}
            IN Obj([n \in kept |-> render(input.o[n], ctx)])
      [] input.k = "array" ->
            Arr([j \in DOMAIN input.a |-> render(input.a[j], ctx)])
      [] OTHER -> input


(***************************************************************************)
(* Collaborators of the runner: helper.ts, jsonschema and the registry.    *)
(***************************************************************************)
\* isTruthy (helper.ts): the coercion of a rendered condition to a boolean.
isTruthy(v) ==
    CASE v.k = "undefined" -> FALSE
      [] v.k = "boolean" -> v.b
      [] v.k = "number" -> v.n # 0
      [] v.k = "string" -> v.s # <<>> /\ v # Text("false")
      [] v.k = "array" -> v.a # <<>>
      [] v.k = "object" -> DOMAIN v.o # {}
      [] OTHER -> TRUE

\* JavaScript's own truthiness, as used by `if (step.if)` and `step.input &&`.
jsTruthy(v) ==
    CASE v.k = "undefined" -> FALSE
      [] v.k = "boolean" -> v.b
      [] v.k = "number" -> v.n # 0
      [] v.k = "string" -> v.s # <<>>
      [] OTHER -> TRUE

NoSchema == [declared |-> FALSE, required |-> {}, properties |-> <<>>]
NameSchema == [declared |-> TRUE, required |-> {"name"}, properties |-> [name |-> "string"]]
UrlSchema == [declared |-> TRUE, required |-> {}, properties |-> [url |-> "string"]]

\* validate (jsonschema): the error messages of an input against a schema.
validateJsonSchema(input, schema) ==
    {"requires property " \o n : n \in {r \in schema.required : r \notin DOMAIN input.o}}
    \cup {n \o " is not of a type(s) " \o schema.properties[n] :
            n \in {q \in DOMAIN schema.properties \cap DOMAIN input.o :
                     input.o[q].k # schema.properties[q]}}

\* generateExampleOutput (helper.ts): an example value for every declared property.
generateExampleOutput(schema) ==
    Obj([n \in DOMAIN schema.properties |-> Text("<example>")])

\* The actions registered with the TemplateActionRegistry.
Registry ==
    [fetch |-> [id |-> "fetch", supportsDryRun |-> TRUE,
                schema |-> [input |-> NameSchema, output |-> NoSchema]],
     publish |-> [id |-> "publish", supportsDryRun |-> FALSE,
                  schema |-> [input |-> NameSchema, output |-> UrlSchema]],
     debug |-> [id |-> "debug", supportsDryRun |-> FALSE,
                schema |-> [input |-> NoSchema, output |-> NoSchema]]]

\* An action id that actionRegistry.get does not know.
UnknownAction == "unknown"

\* The actions whose handler works on files and asks for temporary directories.
UsesTmpDirs == {"fetch"}

(***************************************************************************)
(* The tasks handed to execute.                                            *)
(***************************************************************************)
MaxSteps == 2
MaxTmpDirs == 1

SupportedVersion == "scaffolder.backstage.io/v1beta3"
ApiVersions == {SupportedVersion, "backstage.io/v1beta2"}

\* A version check that lets every apiVersion through.
acceptAnyVersion(taskSpec) == taskSpec.apiVersion \in ApiVersions

\* isValidTaskSpec, lines 62-64.
isValidTaskSpec(taskSpec) == taskSpec.apiVersion = SupportedVersion

StepIds == {"a", "b"}
ActionIds == DOMAIN Registry \cup {UnknownAction}
ParamValues == {Num(0), Text(""), Text("x")}
Secrets == Obj([token |-> Text("s3cr3t")])

\* step.if: absent, the literal false, or a template expression.
IfExprs == {Undef, Bool(FALSE), Str(<<Var(<<"parameters", "c">>)>>)}

\* step.input: the steps of a schema-carrying action pass an input, the others none.
StepInput ==
    Obj([name |-> Str(<<Var(<<"parameters", "c">>)>>),
         token |-> Str(<<Data("Bearer "), Var(<<"secrets", "token">>)>>)])

TaskOutput ==
    Obj([url |-> Str(<<Var(<<"steps", "a", "output", "url">>)>>),
         auth |-> Str(<<Var(<<"secrets", "token">>)>>)])

TaskSteps ==
    {[id |-> id, name |-> id, action |-> a, if |-> c,
      input |-> IF a \in {"fetch", "publish"} THEN StepInput ELSE Undef] :
        id \in StepIds, a \in ActionIds, c \in IfExprs}

\* Step ids are interchangeable names: the first step is called "a".  A literal
\* condition is looked at the same way wherever it stands: the first step has it.
StepLists ==
    {ss \in UNION {[1..n -> TaskSteps] : n \in 0..MaxSteps} :
        /\ ss # <<>> => ss[1].id = "a"
        /\ \A k \in DOMAIN ss : k > 1 => ss[k].if # Bool(FALSE)}

Tasks ==
    {[apiVersion |-> v, isDryRun |-> d, parameters |-> Obj([c |-> p]),
      secrets |-> Secrets, steps |-> ss, output |-> TaskOutput] :
        v \in ApiVersions, d \in BOOLEAN, p \in ParamValues, ss \in StepLists}

\* The values handlers record as outputs.
OutputValues == {Text("https://repo/u1"), Text("x")}

\* The handler of an action records the outputs its output schema declares.
OutputNames(a) == IF a.schema.output.declared THEN DOMAIN a.schema.output.properties ELSE {}

\* The output calls a handler makes at most.
MaxOutputCalls == 2

(***************************************************************************)
(* The state of one execute call and of the tracker.                       *)
(***************************************************************************)
VARIABLES
    task,           \* the TaskContext handed to execute
    pc,             \* where execute stands
    i,              \* the index of the step of the for loop
    context,        \* the TemplateContext
    err,            \* the error caught or about to be raised
    result,         \* how execute ended
    wsExists,       \* the workspace directory exists
    wsCreated,      \* fs.ensureDir(workspacePath) has run
    emitted,        \* the task.emitLog calls made, in call order
    delivered,      \* the emitLog calls whose promise has resolved
    rejected,       \* the emitLog calls whose promise has rejected
    await,          \* the emitLog call execute is awaiting, 0 when none
    handlerCalls,   \* the action.handler invocations, in order
    renders,        \* the render calls of execute, in order
    writes,         \* the assignments to context.steps, in order
    counters,       \* the counter metrics of the tracker
    taskTimer,      \* the timer of taskDuration
    stepTimers,     \* the timers of stepDuration, by step index
    tmpDirs,        \* the tmpDirs array of the step: directories still to be removed
    fsDirs,         \* the temporary directories that exist on the file system
    stepOutput,     \* the stepOutput object of the step
    outputCalls,    \* the output(name, value) calls the handler of the step made
    lateCalls,      \* the output calls handlers made after they had returned
    rInput,         \* the input of a render call on its own
    rContext,       \* its context
    rOutput,        \* what it returned
    rLogged,        \* the string leaves logger.error was called for
    options,        \* pageIterator: the options of the caller
    opts,           \* the opts object of the iterator
    finished,       \* its finished flag
    pending,        \* a pagedRequest call is awaited
    requests,       \* the pagedRequest calls, in order
    yielded,        \* what the next() calls have settled with, in order
    count,          \* workerThreads: the number of workers asked for
    items,          \* the items handed over
    queue,          \* the queue array
    started,        \* the pop() calls Array.map has made
    workers,        \* where each pop() chain stands
    invocations,    \* the fn(item) calls, in order
    settled,        \* the fn calls whose promise has settled
    promise,        \* the promise workerThreads returned
    workspace,      \* what task.getWorkspaceName() returned to this execute call
    workspaces,     \* the workspace directories that exist in the working directory
    other           \* the state of a second execute call while this one runs

tmpVars == <<tmpDirs, fsDirs>>
outVars == <<stepOutput, outputCalls, lateCalls>>
renderVars == <<rInput, rContext, rOutput, rLogged>>

pageVars == <<options, opts, finished, pending, requests, yielded>>

workerVars == <<count, items, queue, started, workers, invocations, settled, promise>>

\* The state of the library functions.
libVars == <<pageVars, workerVars>>

pairVars == <<workspace, other>>

\* What no step of execute touches.
idleVars == <<renderVars, libVars, pairVars>>
restVars == <<idleVars, workspaces>>

vars == <<task, pc, i, context, err, result, wsExists, wsCreated, emitted, delivered,
          rejected, await, handlerCalls, renders, writes, counters, taskTimer,
          stepTimers, tmpDirs, fsDirs, stepOutput, outputCalls, lateCalls,
          rInput, rContext, rOutput, rLogged, options, opts, finished, pending,
          requests, yielded, count, items, queue, started, workers, invocations,
          settled, promise, workspace, workspaces, other>>

\* No render call has been made.
NotCalled == [k |-> "pending"]

\* pageIterator called without options.
NoOptions == [given |-> FALSE, start |-> 0]

\* No page iterator is in use.
pagesIdle ==
    /\ options = NoOptions
    /\ opts = [start |-> 0]
    /\ finished = FALSE
    /\ pending = FALSE
    /\ requests = <<>>
    /\ yielded = <<>>

\* workerThreads is not in use.
workersIdle ==
    /\ count = 0
    /\ items = <<>>
    /\ queue = <<>>
    /\ started = 0
    /\ workers = <<>>
    /\ invocations = <<>>
    /\ settled = {}
    /\ promise = "none"

\* No second execute call is under way.
NoOther == [pc |-> "none"]

\* One execute call on its own.
pairIdle ==
    /\ workspace = "ws1"
    /\ workspaces = {}
    /\ other = NoOther

NoError == [name |-> "none", at |-> "none", step |-> 0, errors |-> {}]
VersionError == [name |-> "InputError", at |-> "version", step |-> 0, errors |-> {}]
NotFoundError(n) == [name |-> "NotFoundError", at |-> "resolve", step |-> n, errors |-> {}]
ValidationError(n, es) == [name |-> "InputError", at |-> "validate", step |-> n, errors |-> es]
HandlerError(n) == [name |-> "Error", at |-> "handler", step |-> n, errors |-> {}]
EmitLogError(n) == [name |-> "Error", at |-> "emitLog", step |-> n, errors |-> {}]

Put(f, key, val) == [x \in DOMAIN f \cup {key} |-> IF x = key THEN val ELSE f[x]]

\* The awaited emitLog promise has resolved and execute goes on; it makes the
\* emitLog calls `records` and awaits the last of them when `awaited`.
Resume(records, awaited) ==
    /\ delivered' = IF await = 0 THEN delivered ELSE delivered \cup {await}
    /\ emitted' = emitted \o records
    /\ await' = IF awaited THEN Len(emitted) + Len(records) ELSE 0
    /\ rejected' = rejected

\* The record task.emitLog is called with.
LogRecord(n, stepId, status, message) ==
    <<[step |-> n, stepId |-> stepId, status |-> status, message |-> message]>>

\* execute is called: nothing of the call has run.
InitCall ==
    /\ task \in Tasks
    /\ pc = "start"
    /\ i = 0
    /\ context = <<>>
    /\ err = NoError
    /\ result = [kind |-> "none", err |-> NoError, output |-> Undef]
    /\ wsExists = FALSE
    /\ wsCreated = FALSE
    /\ emitted = <<>>
    /\ delivered = {}
    /\ rejected = {}
    /\ await = 0
    /\ handlerCalls = <<>>
    /\ renders = <<>>
    /\ writes = <<>>
    /\ counters = [taskSuccesses |-> 0, taskErrors |-> 0,
                   stepSuccesses |-> [n \in StepIds |-> 0],
                   stepErrors |-> [n \in StepIds |-> 0]]
    /\ taskTimer = "none"
    /\ stepTimers = <<>>
    /\ tmpDirs = <<>>
    /\ fsDirs = {}
    /\ stepOutput = <<>>
    /\ outputCalls = <<>>
    /\ lateCalls = 0
    /\ rInput = Undef
    /\ rContext = Undef
    /\ rOutput = NotCalled
    /\ rLogged = {}
    /\ pagesIdle
    /\ workersIdle

Init ==
    /\ InitCall
    /\ pairIdle

\* The promise of an emitLog call that nobody awaits resolves.
LogDelivered ==
    \E n \in DOMAIN emitted \ (delivered \cup rejected \cup {await}) :
        /\ delivered' = delivered \cup {n}
        /\ UNCHANGED <<restVars, tmpVars, outVars>>
        /\ UNCHANGED <<task, pc, i, context, err, result, wsExists, wsCreated, emitted,
                       rejected, await, handlerCalls, renders, writes, counters,
                       taskTimer, stepTimers>>

\* execute, lines 181-185: the task's apiVersion is not the supported one.
RejectVersion ==
    /\ pc = "start"
    /\ ~isValidTaskSpec(task)
    /\ pc' = "done"
    /\ result' = [kind |-> "threw", err |-> VersionError, output |-> Undef]
    /\ UNCHANGED <<restVars, tmpVars, outVars>>
    /\ UNCHANGED <<task, i, context, err, wsExists, wsCreated, emitted, delivered,
                   rejected, await, handlerCalls, renders, writes, counters, taskTimer,
                   stepTimers>>

\* execute up to tracker.taskStart's emitLog, lines 186-206 and 353.
taskStart ==
    /\ pc = "start"
    /\ isValidTaskSpec(task)
    /\ Resume(LogRecord(0, "", "none", "Starting up task"), TRUE)
    /\ pc' = "taskStart"
    /\ UNCHANGED <<restVars, tmpVars, outVars>>
    /\ UNCHANGED <<task, i, context, err, result, wsExists, wsCreated,
                   handlerCalls, renders, writes, counters, taskTimer, stepTimers>>

\* The rest of taskStart, fs.ensureDir and the new TemplateContext, lines 354-359
\* and 207-213.
ensureDir ==
    /\ pc = "taskStart"
    /\ Resume(<<>>, FALSE)
    /\ taskTimer' = "running"
    /\ wsExists' = TRUE
    /\ wsCreated' = TRUE
    /\ workspaces' = workspaces \cup {workspace}
    /\ context' = [parameters |-> task.parameters, steps |-> Obj(<<>>), user |-> Undef]
    /\ i' = 1
    /\ pc' = "loop"
    /\ UNCHANGED <<idleVars, tmpVars, outVars>>
    /\ UNCHANGED <<task, err, result, handlerCalls, renders, writes, counters,
                   stepTimers>>

(***************************************************************************)
(* The for loop over task.spec.steps.                                      *)
(***************************************************************************)
step == task.steps[i]

\* `if (step.if)`: the step declares a condition that JavaScript takes as set.
condDeclared == jsTruthy(step.if)

\* The condition rendered with the context of the input, secrets included.
contextWithSecrets == Put(context, "secrets", task.secrets)

\* The context the condition is rendered with.
ifContext == context

ifResult == render(step.if, Obj(ifContext))

\* The step is skipped because its condition is false, lines 218-224.
conditionFalse == condDeclared /\ ~isTruthy(ifResult)

\* actionRegistry.get(step.action) finds the action.
resolved == step.action \in DOMAIN Registry

action == Registry[step.action]

\* A runner without the dry-run short-circuit.
neverSkipped == FALSE

\* task.isDryRun && !action.supportsDryRun
dryRunSkip == task.isDryRun /\ ~action.supportsDryRun

\* { ...context, secrets: task.secrets ?? {} }
inputContext == Put(context, "secrets", task.secrets)

\* (step.input && this.render(step.input, ...)) ?? {}
input ==
    IF jsTruthy(step.input)
    THEN LET r == render(step.input, Obj(inputContext))
         IN IF r = Undef THEN Obj(<<>>) ELSE r
    ELSE Obj(<<>>)

\* A runner that does not look at the input schema.
notValidated == {}

\* The messages of validateResult.errors; none when no input schema is declared.
validationErrors ==
    IF action.schema.input.declared
    THEN validateJsonSchema(input, action.schema.input)
    ELSE {}

ifRenders ==
    IF condDeclared THEN <<[what |-> "if", step |-> i, context |-> ifContext]>> ELSE <<>>

inputRenders ==
    IF jsTruthy(step.input)
    THEN <<[what |-> "input", step |-> i, context |-> inputContext]>>
    ELSE <<>>

\* context.steps[step.id] = { output }
SetStepOutput(out) ==
    /\ context' = [context EXCEPT !.steps = Obj(Put(@.o, step.id, Obj([output |-> out])))]
    /\ writes' = Append(writes, [step |-> i, id |-> step.id, output |-> out,
                                 replaced |-> step.id \in DOMAIN context.steps.o])

\* The head of the for loop and tracker.stepStart up to its emitLog, lines 215-216
\* and 399-402.
stepStart ==
    /\ pc = "loop"
    /\ i <= Len(task.steps)
    /\ Resume(LogRecord(i, step.id, "processing", "Beginning step"), TRUE)
    /\ pc' = "stepStart"
    /\ UNCHANGED <<restVars, tmpVars, outVars>>
    /\ UNCHANGED <<task, i, context, err, result, wsExists, wsCreated,
                   handlerCalls, renders, writes, counters, taskTimer, stepTimers>>

\* Lines 404-406 and 218-225: the condition renders falsy; stepTrack.skipFalsy
\* emits its record.
skipFalsy ==
    /\ pc = "stepStart"
    /\ conditionFalse
    /\ stepTimers' = Append(stepTimers, "running")
    /\ renders' = renders \o ifRenders
    /\ Resume(LogRecord(i, step.id, "skipped", "Skipping step because its if condition was false"), TRUE)
    /\ pc' = "skipFalsy"
    /\ UNCHANGED <<restVars, tmpVars, outVars>>
    /\ UNCHANGED <<task, i, context, err, result, wsExists, wsCreated,
                   handlerCalls, writes, counters, taskTimer>>

\* `continue` after skipFalsy, line 226.
skipFalsyDone ==
    /\ pc = "skipFalsy"
    /\ Resume(<<>>, FALSE)
    /\ i' = i + 1
    /\ pc' = "loop"
    /\ UNCHANGED <<restVars, tmpVars, outVars>>
    /\ UNCHANGED <<task, context, err, result, wsExists, wsCreated,
                   handlerCalls, renders, writes, counters, taskTimer, stepTimers>>

\* Line 230: actionRegistry.get throws; the catch block calls taskTrack.markFailed,
\* which emits the failed record, lines 301-302 and 380-383.
resolveFails ==
    /\ pc = "stepStart"
    /\ ~conditionFalse
    /\ ~resolved
    /\ stepTimers' = Append(stepTimers, "running")
    /\ renders' = renders \o ifRenders
    /\ err' = NotFoundError(i)
    /\ Resume(LogRecord(i, step.id, "failed", "err.stack"), TRUE)
    /\ pc' = "markFailed"
    /\ UNCHANGED <<restVars, tmpVars, outVars>>
    /\ UNCHANGED <<task, i, context, result, wsExists, wsCreated,
                   handlerCalls, writes, counters, taskTimer>>

\* Lines 233-246: the dry-run short-circuit; skipDryRun (lines 361-369) does not
\* await its emitLog.
skipDryRun ==
    /\ pc = "stepStart"
    /\ ~conditionFalse
    /\ resolved
    /\ dryRunSkip
    /\ stepTimers' = Append(stepTimers, "running")
    /\ renders' = renders \o ifRenders
    /\ Resume(LogRecord(i, step.id, "skipped", "Skipping because action does not support dry-run"), FALSE)
    /\ SetStepOutput(IF action.schema.output.declared
                     THEN generateExampleOutput(action.schema.output)
                     ELSE Obj(<<>>))
    /\ i' = i + 1
    /\ pc' = "loop"
    /\ UNCHANGED <<restVars, tmpVars, outVars>>
    /\ UNCHANGED <<task, err, result, wsExists, wsCreated,
                   handlerCalls, counters, taskTimer>>

\* Lines 249-269: the rendered input fails the action's input schema.
validationFails ==
    /\ pc = "stepStart"
    /\ ~conditionFalse
    /\ resolved
    /\ ~dryRunSkip
    /\ validationErrors # {}
    /\ stepTimers' = Append(stepTimers, "running")
    /\ renders' = renders \o ifRenders \o inputRenders
    /\ err' = ValidationError(i, validationErrors)
    /\ Resume(LogRecord(i, step.id, "failed", "err.stack"), TRUE)
    /\ pc' = "markFailed"
    /\ UNCHANGED <<restVars, tmpVars, outVars>>
    /\ UNCHANGED <<task, i, context, result, wsExists, wsCreated,
                   handlerCalls, writes, counters, taskTimer>>

\* `const stepOutput: { [outputName: string]: JsonValue } = {}`, line 272: each
\* iteration of the loop makes its own empty object.
newStepOutput == <<>>

\* Lines 249-291: action.handler is called with the rendered, validated input.
invokeHandler ==
    /\ pc = "stepStart"
    /\ ~conditionFalse
    /\ resolved
    /\ ~dryRunSkip
    /\ validationErrors = {}
    /\ stepTimers' = Append(stepTimers, "running")
    /\ renders' = renders \o ifRenders \o inputRenders
    /\ handlerCalls' = Append(handlerCalls, [step |-> i, action |-> action.id,
                                             input |-> input, secrets |-> task.secrets])
    /\ Resume(<<>>, FALSE)
    /\ pc' = "handler"
    /\ stepOutput' = newStepOutput
    /\ outputCalls' = <<>>
    /\ UNCHANGED <<restVars, tmpVars, lateCalls>>
    /\ UNCHANGED <<task, i, context, err, result, wsExists, wsCreated,
                   writes, counters, taskTimer>>

\* fs.mkdtemp(`${workspacePath}_step-${step.id}-`), line 281: the prefix continues
\* the name of the workspace, so the directory is made next to the workspace, in
\* the working directory.
mkdtemp(stepId, suffix) ==
    [parent |-> "workingDirectory", prefix |-> workspace \o "_step-" \o stepId \o "-",
     suffix |-> suffix]

\* Lines 280-286: the running handler calls createTemporaryDirectory.
createTemporaryDirectory ==
    /\ pc = "handler"
    /\ action.id \in UsesTmpDirs
    /\ Len(tmpDirs) < MaxTmpDirs
    /\ LET tmpDir == mkdtemp(step.id, <<i, Len(tmpDirs) + 1>>)
       IN /\ fsDirs' = fsDirs \cup {tmpDir}
          /\ tmpDirs' = Append(tmpDirs, tmpDir)
    /\ UNCHANGED <<restVars, outVars>>
    /\ UNCHANGED <<task, pc, i, context, err, result, wsExists, wsCreated, emitted,
                   delivered, rejected, await, handlerCalls, renders, writes, counters,
                   taskTimer, stepTimers>>

\* An output(name, value) call assigns over what the name held before.
assignFirstOnly(out, name, value) == IF name \in DOMAIN out THEN out ELSE Put(out, name, value)

\* `stepOutput[name] = value`, line 288.
assign(out, name, value) == Put(out, name, value)

\* Lines 287-289: the running handler calls output(name, value).
output ==
    /\ pc = "handler"
    /\ Len(outputCalls) < MaxOutputCalls
    /\ \E name \in OutputNames(action), value \in OutputValues :
          /\ stepOutput' = assign(stepOutput, name, value)
          /\ outputCalls' = Append(outputCalls, [name |-> name, value |-> value])
    /\ UNCHANGED <<restVars, tmpVars, lateCalls>>
    /\ UNCHANGED <<task, pc, i, context, err, result, wsExists, wsCreated, emitted,
                   delivered, rejected, await, handlerCalls, renders, writes, counters,
                   taskTimer, stepTimers>>

\* The promise of action.handler resolves, line 274.
handlerReturns ==
    /\ pc = "handler"
    /\ pc' = "removeTmp"
    /\ UNCHANGED <<restVars, tmpVars, outVars>>
    /\ UNCHANGED <<task, i, context, err, result, wsExists, wsCreated, emitted,
                   delivered, rejected, await, handlerCalls, renders, writes, counters,
                   taskTimer, stepTimers>>

\* A runner without the removal loop: the handler's return leads to the capture.
keepTmpDirs == {}

\* The directories of tmpDirs the loop of lines 294-296 has not removed yet.
toRemove == {j \in DOMAIN tmpDirs : tmpDirs[j] \in fsDirs}

\* Lines 294-296: one turn of the loop, `await fs.remove(tmpDir)`.
removeTmpDir ==
    /\ pc = "removeTmp"
    /\ toRemove # {}
    /\ fsDirs' = fsDirs \ {tmpDirs[CHOOSE j \in toRemove : \A k \in toRemove : j <= k]}
    /\ UNCHANGED <<restVars, tmpDirs, outVars>>
    /\ UNCHANGED <<task, pc, i, context, err, result, wsExists, wsCreated, emitted,
                   delivered, rejected, await, handlerCalls, renders, writes, counters,
                   taskTimer, stepTimers>>

\* Lines 298-300 and 409-412: the loop is over and tmpDirs out of use; the output
\* the handler recorded is captured and stepTrack.markSuccessful emits its record.
captureOutput ==
    /\ pc = "removeTmp"
    /\ toRemove = {}
    /\ SetStepOutput(Obj(stepOutput))
    /\ Resume(LogRecord(i, step.id, "completed", "Finished step"), TRUE)
    /\ pc' = "markSuccessful"
    /\ tmpDirs' = <<>>
    /\ UNCHANGED <<restVars, fsDirs, outVars>>
    /\ UNCHANGED <<task, i, err, result, wsExists, wsCreated,
                   handlerCalls, renders, counters, taskTimer, stepTimers>>

\* The handler threw; the catch block calls taskTrack.markFailed, lines 301-302
\* and 380-383.
handlerThrows ==
    /\ pc = "handler"
    /\ err' = HandlerError(i)
    /\ Resume(LogRecord(i, step.id, "failed", "err.stack"), TRUE)
    /\ pc' = "markFailed"
    /\ stepOutput' = <<>>
    /\ outputCalls' = <<>>
    /\ UNCHANGED <<restVars, tmpVars, lateCalls>>
    /\ UNCHANGED <<task, i, context, result, wsExists, wsCreated,
                   handlerCalls, renders, writes, counters, taskTimer, stepTimers>>

\* stepTrack.markSuccessful after its emitLog, lines 413-416, and the next iteration.
stepMarkSuccessful ==
    /\ pc = "markSuccessful"
    /\ Resume(<<>>, FALSE)
    /\ counters' = [counters EXCEPT !.stepSuccesses[step.name] = @ + 1]
    /\ stepTimers' = [stepTimers EXCEPT ![i] = "ok"]
    /\ i' = i + 1
    /\ pc' = "loop"
    /\ stepOutput' = <<>>
    /\ outputCalls' = <<>>
    /\ UNCHANGED <<restVars, tmpVars, lateCalls>>
    /\ UNCHANGED <<task, context, err, result, wsExists, wsCreated,
                   handlerCalls, renders, writes, taskTimer>>

\* A catch block that records the failure and goes on with the next step.
markFailedContinues ==
    /\ pc = "markFailed"
    /\ Resume(<<>>, FALSE)
    /\ counters' = [counters EXCEPT !.taskErrors = @ + 1, !.stepErrors[step.name] = @ + 1]
    /\ taskTimer' = "failed"
    /\ stepTimers' = [stepTimers EXCEPT ![i] = "failed"]
    /\ i' = i + 1
    /\ pc' = "loop"
    /\ UNCHANGED <<restVars, tmpVars, outVars>>
    /\ UNCHANGED <<task, context, err, result, wsExists, wsCreated,
                   handlerCalls, renders, writes>>

\* A catch block that leaves out stepTrack.markFailed().
markFailedTaskOnly ==
    /\ pc = "markFailed"
    /\ Resume(<<>>, FALSE)
    /\ counters' = [counters EXCEPT !.taskErrors = @ + 1]
    /\ taskTimer' = "failed"
    /\ pc' = "finally"
    /\ UNCHANGED <<restVars, tmpVars, outVars>>
    /\ UNCHANGED <<task, i, context, err, result, wsExists, wsCreated,
                   handlerCalls, renders, writes, stepTimers>>

\* taskTrack.markFailed after its emitLog, lines 384-388, then stepTrack.markFailed,
\* lines 419-424, and `throw err`, line 304.
markFailed ==
    /\ pc = "markFailed"
    /\ Resume(<<>>, FALSE)
    /\ counters' = [counters EXCEPT !.taskErrors = @ + 1, !.stepErrors[step.name] = @ + 1]
    /\ taskTimer' = "failed"
    /\ stepTimers' = [stepTimers EXCEPT ![i] = "failed"]
    /\ pc' = "finally"
    /\ UNCHANGED <<restVars, tmpVars, outVars>>
    /\ UNCHANGED <<task, i, context, err, result, wsExists, wsCreated,
                   handlerCalls, renders, writes>>

\* The context the task's output is rendered with.
outputContext == context

\* Lines 308-311: the loop is over; the output is rendered, the task marked successful.
renderOutput ==
    /\ pc = "loop"
    /\ i > Len(task.steps)
    /\ Resume(<<>>, FALSE)
    /\ renders' = Append(renders, [what |-> "output", step |-> 0, context |-> outputContext])
    /\ counters' = [counters EXCEPT !.taskSuccesses = @ + 1]
    /\ taskTimer' = "ok"
    /\ result' = [result EXCEPT !.output = render(task.output, Obj(outputContext))]
    /\ pc' = "finally"
    /\ UNCHANGED <<restVars, tmpVars, outVars>>
    /\ UNCHANGED <<task, i, context, err, wsExists, wsCreated,
                   handlerCalls, writes, stepTimers>>

\* A cleanup that empties the working directory.
removeAll == workspaces

\* `await fs.remove(workspacePath)`, line 314: the directory of this execution.
removed == {workspace}

\* A cleanup that follows the try block instead of sitting in its finally clause.
cleanupOnReturnOnly ==
    /\ pc = "finally"
    /\ wsExists' = IF err = NoError THEN FALSE ELSE wsExists
    /\ workspaces' = IF err = NoError THEN workspaces \ removed ELSE workspaces
    /\ fsDirs' = IF err = NoError THEN {d \in fsDirs : d.parent # "workspacePath"} ELSE fsDirs
    /\ result' = IF err = NoError
                 THEN [result EXCEPT !.kind = "returned"]
                 ELSE [result EXCEPT !.kind = "threw", !.err = err]
    /\ pc' = "done"
    /\ UNCHANGED <<idleVars, tmpDirs, outVars>>
    /\ UNCHANGED <<task, i, context, err, wsCreated, emitted, delivered, rejected, await,
                   handlerCalls, renders, writes, counters, taskTimer, stepTimers>>

\* Lines 312-316: the finally block removes the workspace; execute returns or raises.
finally ==
    /\ pc = "finally"
    /\ wsExists' = FALSE
    /\ workspaces' = workspaces \ removed
    /\ fsDirs' = {d \in fsDirs : d.parent # "workspacePath"}
    /\ result' = IF err = NoError
                 THEN [result EXCEPT !.kind = "returned"]
                 ELSE [result EXCEPT !.kind = "threw", !.err = err]
    /\ pc' = "done"
    /\ UNCHANGED <<idleVars, tmpDirs, outVars>>
    /\ UNCHANGED <<task, i, context, err, wsCreated, emitted, delivered, rejected, await,
                   handlerCalls, renders, writes, counters, taskTimer, stepTimers>>

Next ==
    \/ LogDelivered
    \/ RejectVersion
    \/ taskStart
    \/ ensureDir
    \/ stepStart
    \/ skipFalsy
    \/ skipFalsyDone
    \/ resolveFails
    \/ skipDryRun
    \/ validationFails
    \/ invokeHandler
    \/ createTemporaryDirectory
    \/ output
    \/ handlerReturns
    \/ removeTmpDir
    \/ captureOutput
    \/ handlerThrows
    \/ stepMarkSuccessful
    \/ markFailed
    \/ renderOutput
    \/ finally

Spec == Init /\ [][Next]_vars


(***************************************************************************)
(* The same runner with a task whose emitLog callback may fail.            *)
(***************************************************************************)
\* The awaited emitLog promise rejects: the exception surfaces at the await.  In
\* taskStart, in stepStart and in the catch block it leaves the try statement at
\* once; in skipFalsy and in stepTrack.markSuccessful the catch block takes it.
emitLogRejects ==
    /\ await # 0
    /\ rejected' = rejected \cup {await}
    /\ delivered' = delivered
    /\ err' = EmitLogError(i)
    /\ IF pc \in {"skipFalsy", "markSuccessful"}
       THEN /\ emitted' = emitted \o LogRecord(i, step.id, "failed", "err.stack")
            /\ await' = Len(emitted) + 1
            /\ pc' = "markFailed"
       ELSE /\ emitted' = emitted
            /\ await' = 0
            /\ pc' = "finally"
    /\ UNCHANGED <<restVars, tmpVars, outVars>>
    /\ UNCHANGED <<task, i, context, result, wsExists, wsCreated, handlerCalls, renders,
                   writes, counters, taskTimer, stepTimers>>

\* The promise of an emitLog call that nobody awaits rejects.
LogRejected ==
    \E n \in DOMAIN emitted \ (delivered \cup rejected \cup {await}) :
        /\ rejected' = rejected \cup {n}
        /\ UNCHANGED <<restVars, tmpVars, outVars>>
        /\ UNCHANGED <<task, pc, i, context, err, result, wsExists, wsCreated, emitted,
                       delivered, await, handlerCalls, renders, writes, counters,
                       taskTimer, stepTimers>>

NextFaulty ==
    \/ Next
    \/ emitLogRejects
    \/ LogRejected

\* The tasks of the faulty runs: a failing emitLog does not look at the parameters.
InitFaulty == Init /\ task.parameters.o.c \in {Num(0), Text("x")}

SpecFaulty == InitFaulty /\ [][NextFaulty]_vars

(***************************************************************************)
(* Handlers that keep the output callback and call it after they returned. *)
(***************************************************************************)
\* The late output calls of one execution at most.
MaxLateCalls == 1

\* The handler of step `n` was invoked.
handlerRan(n) == \E c \in DOMAIN handlerCalls : handlerCalls[c].step = n

\* Line 298 stores the stepOutput object itself, not a copy: the entry of
\* context.steps written by writes[w] still refers to that object unless a later
\* step with the same id has put its own entry in its place.
aliased(w) == \A m \in DOMAIN writes : m > w => writes[m].id # writes[w].id

\* Lines 287-289 called once the handler has returned and line 298 has run: the
\* closure assigns to the stepOutput object of its step.
lateOutput ==
    /\ pc # "done"
    /\ lateCalls < MaxLateCalls
    /\ lateCalls' = lateCalls + 1
    /\ \E w \in DOMAIN writes :
          /\ handlerRan(writes[w].step)
          /\ \E name \in OutputNames(Registry[task.steps[writes[w].step].action]),
                value \in OutputValues :
                LET id == writes[w].id
                    old == context.steps.o[id].o.output.o
                    current == pc = "markSuccessful" /\ writes[w].step = i
                IN /\ context' = IF aliased(w)
                                 THEN [context EXCEPT !.steps.o[id] =
                                          Obj([output |-> Obj(assign(old, name, value))])]
                                 ELSE context
                   /\ stepOutput' = IF current THEN assign(stepOutput, name, value)
                                    ELSE stepOutput
                   /\ outputCalls' = IF current
                                     THEN Append(outputCalls, [name |-> name, value |-> value])
                                     ELSE outputCalls
    /\ UNCHANGED <<restVars, tmpVars>>
    /\ UNCHANGED <<task, pc, i, err, result, wsExists, wsCreated, emitted, delivered,
                   rejected, await, handlerCalls, renders, writes, counters, taskTimer,
                   stepTimers>>

NextLate ==
    \/ Next
    \/ lateOutput

SpecLate == Init /\ [][NextLate]_vars

(***************************************************************************)
(* Two execute calls on one runner.  Each call has its own task, workspace *)
(* name, context, tracker handles and locals; the runner's counters and    *)
(* the file system are the same for both.  One call runs at a time; at an  *)
(* await the event loop may go on with the other call.                     *)
(***************************************************************************)
\* What belongs to the execute call that is running.
locals ==
    [task |-> task, pc |-> pc, i |-> i, context |-> context, err |-> err,
     result |-> result, wsExists |-> wsExists, wsCreated |-> wsCreated,
     emitted |-> emitted, delivered |-> delivered, rejected |-> rejected,
     await |-> await, handlerCalls |-> handlerCalls, renders |-> renders,
     writes |-> writes, taskTimer |-> taskTimer, stepTimers |-> stepTimers,
     tmpDirs |-> tmpDirs, stepOutput |-> stepOutput, outputCalls |-> outputCalls,
     workspace |-> workspace]

\* The tasks of the first call: one step of any action, with or without a
\* condition, in both modes and of both versions.
FirstTasks ==
    {t \in Tasks :
        /\ Len(t.steps) = 1
        /\ t.steps[1].if # Bool(FALSE)
        /\ t.parameters.o.c \in {Num(0), Text("x")}
        /\ t.apiVersion # SupportedVersion =>
               t.steps[1].action = "debug" /\ ~t.isDryRun /\ t.steps[1].if = Undef}

\* The tasks of the second call: a step with the same id that fetches or publishes.
SecondTasks ==
    {t \in FirstTasks :
        /\ t.apiVersion = SupportedVersion
        /\ ~t.isDryRun
        /\ t.steps[1].if = Undef
        /\ t.parameters.o.c = Text("x")
        /\ t.steps[1].action \in {"fetch", "publish"}}

\* Two calls, neither has started; their workspace names differ.
InitPair ==
    /\ InitCall
    /\ task \in FirstTasks
    /\ workspace = "ws1"
    /\ workspaces = {}
    /\ \E t \in SecondTasks :
          other = [locals EXCEPT !.task = t, !.workspace = "ws2"]

\* The running call awaits and the event loop goes on with the other call.
switch ==
    /\ other # NoOther
    /\ other.pc # "done"
    /\ other' = locals
    /\ task' = other.task
    /\ pc' = other.pc
    /\ i' = other.i
    /\ context' = other.context
    /\ err' = other.err
    /\ result' = other.result
    /\ wsExists' = other.wsExists
    /\ wsCreated' = other.wsCreated
    /\ emitted' = other.emitted
    /\ delivered' = other.delivered
    /\ rejected' = other.rejected
    /\ await' = other.await
    /\ handlerCalls' = other.handlerCalls
    /\ renders' = other.renders
    /\ writes' = other.writes
    /\ taskTimer' = other.taskTimer
    /\ stepTimers' = other.stepTimers
    /\ tmpDirs' = other.tmpDirs
    /\ stepOutput' = other.stepOutput
    /\ outputCalls' = other.outputCalls
    /\ workspace' = other.workspace
    /\ UNCHANGED <<counters, fsDirs, workspaces, lateCalls, renderVars, libVars>>

NextPair ==
    \/ Next
    \/ switch

SpecPair == InitPair /\ [][NextPair]_vars

(***************************************************************************)
(* render on its own: one call with an input and a context drawn from the  *)
(* values below.                                                           *)
(***************************************************************************)
MaxWidth == 2

CountPath == <<"parameters", "count">>

\* What parameters.count may be; absent in the last context.
CountValues == {Num(3), Bool(TRUE), Text("x"), Text(""), Obj(<<>>), Arr(<<>>)}

RenderContexts ==
    {Obj([parameters |-> Obj([count |-> v])]) : v \in CountValues}
    \cup {Obj([parameters |-> Obj(<<>>)])}

\* The leaves of an input: "${{ parameters.count }}", the same expression written
\* over two lines, "prefix-${{ parameters.count }}", plain strings, strings whose
\* template fails, and values that are no strings.
RenderLeaves ==
    {Str(<<Var(CountPath)>>), Str(<<VarNl(CountPath)>>),
     Str(<<Data("prefix-"), Var(CountPath)>>),
     Text("x"), Text(""),
     Str(<<Raise>>), Str(<<Data("prefix-"), Raise>>), Str(<<Unclosed>>),
     Num(3), Bool(FALSE), Null}

Keys == <<"a", "b", "c", "d">>

RenderInputs ==
    RenderLeaves
    \cup UNION {{Obj(o) : o \in [{Keys[j] : j \in 1..n} -> RenderLeaves]} : n \in 0..MaxWidth}
    \cup UNION {{Arr(a) : a \in [1..n -> RenderLeaves]} : n \in 0..MaxWidth}
    \cup {Obj([a |-> Arr(<<l>>)]) : l \in RenderLeaves}
    \cup {Obj([a |-> Obj([b |-> l])]) : l \in RenderLeaves}

\* The string leaves of an input for which the reviver calls logger.error.
RECURSIVE failedLeaves(_, _)
failedLeaves(value, ctx) ==
    CASE value.k = "string" -> IF leafFailure(value.s, ctx) THEN {value} ELSE {}
      [] value.k = "object" -> UNION {failedLeaves(value.o[n], ctx) : n \in DOMAIN value.o}
      [] value.k = "array" -> UNION {failedLeaves(value.a[j], ctx) : j \in DOMAIN value.a}
      [] OTHER -> {}

InitRender ==
    /\ task = [apiVersion |-> SupportedVersion, isDryRun |-> FALSE,
               parameters |-> Obj(<<>>), secrets |-> Obj(<<>>), steps |-> <<>>,
               output |-> Obj(<<>>)]
    /\ pc = "render"
    /\ i = 0
    /\ context = <<>>
    /\ err = NoError
    /\ result = [kind |-> "none", err |-> NoError, output |-> Undef]
    /\ wsExists = FALSE
    /\ wsCreated = FALSE
    /\ emitted = <<>>
    /\ delivered = {}
    /\ rejected = {}
    /\ await = 0
    /\ handlerCalls = <<>>
    /\ renders = <<>>
    /\ writes = <<>>
    /\ counters = [taskSuccesses |-> 0, taskErrors |-> 0,
                   stepSuccesses |-> [n \in StepIds |-> 0],
                   stepErrors |-> [n \in StepIds |-> 0]]
    /\ taskTimer = "none"
    /\ stepTimers = <<>>
    /\ tmpDirs = <<>>
    /\ fsDirs = {}
    /\ stepOutput = <<>>
    /\ outputCalls = <<>>
    /\ lateCalls = 0
    /\ rInput \in RenderInputs
    /\ rContext \in RenderContexts
    /\ rOutput = NotCalled
    /\ rLogged = {}
    /\ pagesIdle
    /\ workersIdle
    /\ pairIdle

\* this.render(input, context, renderTemplate), lines 131-178.
renderCall ==
    /\ pc = "render"
    /\ rOutput = NotCalled
    /\ rOutput' = render(rInput, rContext)
    /\ rLogged' = failedLeaves(rInput, rContext)
    /\ UNCHANGED <<rInput, rContext, tmpVars, outVars, libVars, pairVars, workspaces>>
    /\ UNCHANGED <<task, pc, i, context, err, result, wsExists, wsCreated, emitted,
                   delivered, rejected, await, handlerCalls, renders, writes, counters,
                   taskTimer, stepTimers>>

NextRender ==
    \/ renderCall

SpecRender == InitRender /\ [][NextRender]_vars

\* execute is not running and render is not called: the state of a run of one of
\* the library functions, `at` naming it.
executeIdle(at) ==
    /\ task = [apiVersion |-> SupportedVersion, isDryRun |-> FALSE,
               parameters |-> Obj(<<>>), secrets |-> Obj(<<>>), steps |-> <<>>,
               output |-> Obj(<<>>)]
    /\ pc = at
    /\ i = 0
    /\ context = <<>>
    /\ err = NoError
    /\ result = [kind |-> "none", err |-> NoError, output |-> Undef]
    /\ wsExists = FALSE
    /\ wsCreated = FALSE
    /\ emitted = <<>>
    /\ delivered = {}
    /\ rejected = {}
    /\ await = 0
    /\ handlerCalls = <<>>
    /\ renders = <<>>
    /\ writes = <<>>
    /\ counters = [taskSuccesses |-> 0, taskErrors |-> 0,
                   stepSuccesses |-> [n \in StepIds |-> 0],
                   stepErrors |-> [n \in StepIds |-> 0]]
    /\ taskTimer = "none"
    /\ stepTimers = <<>>
    /\ tmpDirs = <<>>
    /\ fsDirs = {}
    /\ stepOutput = <<>>
    /\ outputCalls = <<>>
    /\ lateCalls = 0
    /\ rInput = Undef
    /\ rContext = Undef
    /\ rOutput = NotCalled
    /\ rLogged = {}
    /\ pairIdle

execVars == <<task, pc, i, context, err, result, wsExists, wsCreated, emitted, delivered,
              rejected, await, handlerCalls, renders, writes, counters, taskTimer,
              stepTimers, tmpVars, outVars, renderVars, pairVars, workspaces>>

(***************************************************************************)
(* pageIterator of the Bitbucket client.                                   *)
(***************************************************************************)
\* The next() calls of one run at most.
MaxCalls == 4

\* The start offsets callers and responses name.
Starts == {0, 1, 2}

\* The options a caller passes: none, or an object with a start offset.
ListOptions == {NoOptions} \cup {[given |-> TRUE, start |-> n] : n \in Starts}

\* The PagedResponse that answers the n-th request.
PagedResponse(n) ==
    {[n |-> n, isLastPage |-> last, nextPageStart |-> start] :
        last \in BOOLEAN, start \in Starts}

\* `value: undefined`
NoPage == [n |-> 0, isLastPage |-> FALSE, nextPageStart |-> 0]

\* `const opts = options || { start: 0 }; let finished = false;`, lines 98-99.
InitPages ==
    /\ executeIdle("pages")
    /\ options \in ListOptions
    /\ opts = IF options.given THEN [start |-> options.start] ELSE [start |-> 0]
    /\ finished = FALSE
    /\ pending = FALSE
    /\ requests = <<>>
    /\ yielded = <<>>
    /\ workersIdle

\* next() with finished false calls pagedRequest(opts) and awaits it, lines 101-103.
nextRequest ==
    /\ pc = "pages"
    /\ ~pending
    /\ Len(yielded) < MaxCalls
    /\ ~finished
    /\ requests' = Append(requests, [start |-> opts.start, after |-> Len(yielded)])
    /\ pending' = TRUE
    /\ UNCHANGED <<options, opts, finished, yielded>>
    /\ UNCHANGED <<execVars, workerVars>>

\* An iterator that asks for the same offset again after a response.
sameStart(response) == opts.start

\* `opts.start = response.nextPageStart`, line 105.
nextStart(response) == response.nextPageStart

\* The awaited pagedRequest resolves with a response, lines 103-109.
requestResolves ==
    /\ pending
    /\ \E response \in PagedResponse(Len(requests)) :
          /\ finished' = response.isLastPage
          /\ opts' = [opts EXCEPT !.start = nextStart(response)]
          /\ yielded' = Append(yielded, [done |-> FALSE, failed |-> FALSE,
                                         value |-> response])
    /\ pending' = FALSE
    /\ UNCHANGED <<options, requests>>
    /\ UNCHANGED <<execVars, workerVars>>

\* The awaited pagedRequest rejects; next() rejects, lines 110-116.
requestRejects ==
    /\ pending
    /\ yielded' = Append(yielded, [done |-> TRUE, failed |-> TRUE, value |-> NoPage])
    /\ pending' = FALSE
    /\ UNCHANGED <<options, opts, finished, requests>>
    /\ UNCHANGED <<execVars, workerVars>>

\* next() with finished true reports done and resets the iterator, lines 117-124.
nextDone ==
    /\ pc = "pages"
    /\ ~pending
    /\ Len(yielded) < MaxCalls
    /\ finished
    /\ opts' = [opts EXCEPT !.start = 0]
    /\ finished' = FALSE
    /\ yielded' = Append(yielded, [done |-> TRUE, failed |-> FALSE, value |-> NoPage])
    /\ UNCHANGED <<options, pending, requests>>
    /\ UNCHANGED <<execVars, workerVars>>

NextPages ==
    \/ nextRequest
    \/ requestResolves
    \/ requestRejects
    \/ nextDone

SpecPages == InitPages /\ [][NextPages]_vars

(***************************************************************************)
(* workerThreads of the versions:bump command.                             *)
(***************************************************************************)
\* The workers and the items of one call at most.
MaxCount == 3
MaxItems == 4

\* The items of the callers are the entries of a Map and the names of packages,
\* told apart here by their place in the iteration, from 1: none of them is falsy.
Items(n) == [k \in 1..n |-> k]

\* `!item`, line 417.
isFalsy(item) == item = 0

\* `const queue = Array.from(items)`, line 413; nothing has run yet.
InitWorkers ==
    /\ executeIdle("workers")
    /\ pagesIdle
    /\ count \in 1..MaxCount
    /\ items \in {Items(n) : n \in 0..MaxItems}
    /\ queue = items
    /\ started = 0
    /\ workers = [w \in 1..count |-> [st |-> "new", inv |-> 0]]
    /\ invocations = <<>>
    /\ settled = {}
    /\ promise = "pending"

\* A pop that looks at the head of the queue while it removes the tail.
headOf(q) == q[1]

\* `queue.pop()`, line 416: the last element.
popped(q) == q[Len(q)]

\* Promise.all, lines 425-429: rejected with the first rejection, resolved when
\* every pop() chain has returned.
all(ws) ==
    IF promise # "pending" THEN promise
    ELSE IF \E w \in DOMAIN ws : ws[w].st = "rejected" THEN "rejected"
    ELSE IF \A w \in DOMAIN ws : ws[w].st = "returned" THEN "resolved"
    ELSE "pending"

\* pop() of worker w up to its first await, lines 415-421: it returns on an empty
\* queue or a falsy item and calls fn with the item otherwise.
pop(w, done) ==
    LET ws == IF queue = <<>> \/ isFalsy(popped(queue))
              THEN [workers EXCEPT ![w] = [st |-> "returned", inv |-> 0]]
              ELSE [workers EXCEPT ![w] = [st |-> "running",
                                           inv |-> Len(invocations) + 1]]
    IN /\ queue' = IF queue = <<>> THEN queue ELSE SubSeq(queue, 1, Len(queue) - 1)
       /\ invocations' = IF queue = <<>> \/ isFalsy(popped(queue)) THEN invocations
                         ELSE Append(invocations, [item |-> popped(queue), worker |-> w])
       /\ workers' = ws
       /\ settled' = settled \cup done
       /\ promise' = all(ws)

\* `Array(count).fill(0).map(() => pop())`, lines 426-428: the next pop() call.
startWorker ==
    /\ pc = "workers"
    /\ started < count
    /\ started' = started + 1
    /\ pop(started + 1, {})
    /\ UNCHANGED <<count, items>>
    /\ UNCHANGED <<execVars, pageVars>>

\* The promise of fn(item) resolves and the worker goes on with `await pop()`,
\* lines 421-422.
fnResolves ==
    /\ started = count
    /\ \E w \in DOMAIN workers :
          /\ workers[w].st = "running"
          /\ pop(w, {workers[w].inv})
    /\ UNCHANGED <<count, items, started>>
    /\ UNCHANGED <<execVars, pageVars>>

\* The promise of fn(item) rejects: `await fn(item)` throws and the chain of
\* pop() calls of the worker rejects, line 421.
fnRejects ==
    /\ started = count
    /\ \E w \in DOMAIN workers :
          /\ workers[w].st = "running"
          /\ LET ws == [workers EXCEPT ![w] = [st |-> "rejected", inv |-> 0]]
             IN /\ workers' = ws
                /\ promise' = all(ws)
          /\ settled' = settled \cup {workers[w].inv}
    /\ UNCHANGED <<count, items, queue, started, invocations>>
    /\ UNCHANGED <<execVars, pageVars>>

NextWorkers ==
    \/ startWorker
    \/ fnResolves
    \/ fnRejects

\* Every fn call settles and every continuation gets its turn.
SpecWorkers == InitWorkers /\ [][NextWorkers]_vars /\ WF_vars(NextWorkers)

(***************************************************************************)
(* The claims.                                                             *)
(***************************************************************************)
StepFailure == {"resolve", "validate", "handler"}

\* C1: a task whose apiVersion is not the supported one makes execute raise the
\* input error before the workspace is created, before taskStart runs and before
\* any step is begun, rendered or handled.
C1_UnsupportedVersionFailsFirst ==
    task.apiVersion # SupportedVersion =>
        /\ ~wsCreated
        /\ ~wsExists
        /\ emitted = <<>>
        /\ taskTimer = "none"
        /\ stepTimers = <<>>
        /\ renders = <<>>
        /\ handlerCalls = <<>>
        /\ pc \in {"start", "done"}
        /\ pc = "done" => result.kind = "threw" /\ result.err = VersionError

C1_Witness ==
    /\ task.apiVersion # SupportedVersion
    /\ Len(task.steps) = MaxSteps
    /\ pc = "done"
    /\ result.kind = "threw"

\* C2: once a step has failed (resolution, validation or handler), no later step is
\* begun or handled, execute raises that step's error and the workspace is gone
\* when execute exits.
C2_FailFast ==
    err.at \in StepFailure =>
        /\ i = err.step
        /\ pc \in {"markFailed", "finally", "done"}
        /\ \A n \in DOMAIN handlerCalls : handlerCalls[n].step <= err.step
        /\ \A n \in DOMAIN emitted : emitted[n].step <= err.step
        /\ \A n \in DOMAIN emitted : emitted[n].status = "failed" => emitted[n].step = err.step
        /\ Len(stepTimers) <= err.step
        /\ pc = "done" => result.kind = "threw" /\ result.err = err /\ ~wsExists

C2_Witness ==
    /\ pc = "done"
    /\ err.at = "handler"
    /\ err.step = 1
    /\ Len(task.steps) > 1
    /\ result.kind = "threw"

\* C3: on every exit from execute after the workspace directory was created, the
\* directory has been removed.
C3_WorkspaceRemovedOnExit ==
    pc = "done" /\ wsCreated => ~wsExists

C3_Witness ==
    /\ pc = "done"
    /\ wsCreated
    /\ result.kind = "threw"
    /\ result.err.at = "emitLog"
    /\ ~wsExists


\* The TemplateContext as it stood when step j began: the writes of the steps before it.
RECURSIVE StepsOf(_)
StepsOf(ws) ==
    IF ws = <<>> THEN <<>>
    ELSE LET w == ws[Len(ws)]
         IN Put(StepsOf(SubSeq(ws, 1, Len(ws) - 1)), w.id, Obj([output |-> w.output]))

WritesBefore(j) == SelectSeq(writes, LAMBDA w : w.step < j)

ContextBefore(j) ==
    [parameters |-> task.parameters, steps |-> Obj(StepsOf(WritesBefore(j))), user |-> Undef]

Handled(j) == \E n \in DOMAIN handlerCalls : handlerCalls[n].step = j
Written(j) == \E n \in DOMAIN writes : writes[n].step = j
SkippedFalsy(j) ==
    \E n \in DOMAIN emitted :
        /\ emitted[n].step = j
        /\ emitted[n].status = "skipped"
        /\ emitted[n].message = "Skipping step because its if condition was false"

\* C4: a step that declares an "if" whose rendered value is falsy has no handler
\* invoked, gets a skipped record and no entry in context.steps, and no later
\* rendering sees an entry for its id.
C4_FalsyConditionSkips ==
    \A j \in DOMAIN stepTimers :
        LET s == task.steps[j]
        IN s.if # Undef /\ ~isTruthy(render(s.if, Obj(ContextBefore(j)))) =>
                /\ ~Handled(j)
                /\ ~Written(j)
                /\ SkippedFalsy(j)
                /\ \A n \in DOMAIN renders :
                      renders[n].step > j => s.id \notin DOMAIN renders[n].context.steps.o

\* C5: in a dry-run task a step whose resolved action declares no dry-run support
\* has no handler invoked; its context.steps entry is an example conforming to the
\* output schema when one is declared and the empty mapping otherwise, and the loop
\* has moved on.  Handlers run only when the task is no dry run or the action
\* supports dry runs.
C5_DryRunSkip ==
    /\ \A n \in DOMAIN handlerCalls :
          ~task.isDryRun \/ Registry[handlerCalls[n].action].supportsDryRun
    /\ \A j \in DOMAIN stepTimers :
          LET s == task.steps[j]
          IN /\ task.isDryRun
             /\ ~SkippedFalsy(j)
             /\ s.action \in DOMAIN Registry
             /\ ~Registry[s.action].supportsDryRun
             => /\ ~Handled(j)
                /\ i > j
                /\ \E n \in DOMAIN writes :
                      LET schema == Registry[s.action].schema.output
                          out == writes[n].output
                      IN /\ writes[n].step = j
                         /\ writes[n].id = s.id
                         /\ IF schema.declared
                            THEN /\ out.k = "object"
                                 /\ DOMAIN out.o = DOMAIN schema.properties
                                 /\ validateJsonSchema(out, schema) = {}
                            ELSE out = Obj(<<>>)

C5_Witness ==
    /\ pc = "done"
    /\ task.isDryRun
    /\ handlerCalls = <<>>
    /\ \E n \in DOMAIN writes :
          /\ Registry[task.steps[writes[n].step].action].schema.output.declared
          /\ writes[n].output = Obj([url |-> Text("<example>")])
    /\ \E n \in DOMAIN writes : writes[n].output = Obj(<<>>)

\* C6: a handler of an action with an input schema is invoked only with an input
\* that passed validation; when validation fails the handler is not invoked, execute
\* raises an InputError carrying the validation messages, and the step gets no entry.
C6_ValidatedBeforeHandler ==
    /\ \A n \in DOMAIN handlerCalls :
          LET schema == Registry[handlerCalls[n].action].schema.input
          IN schema.declared => validateJsonSchema(handlerCalls[n].input, schema) = {}
    /\ err.at = "validate" =>
          /\ err.name = "InputError"
          /\ err.errors # {}
          /\ ~Handled(err.step)
          /\ ~Written(err.step)
          /\ pc = "done" => result.kind = "threw" /\ result.err = err

C6_Witness ==
    /\ pc = "done"
    /\ result.kind = "threw"
    /\ result.err.at = "validate"
    /\ result.err.errors = {"name is not of a type(s) string"}
    /\ result.err.step = 2
    /\ Handled(1)

\* C7: the condition of a step and the task's output are rendered with a context
\* without secrets, the input of a step with the task's secrets, and the
\* TemplateContext itself never has a secrets field.
C7_SecretsIsolation ==
    /\ "secrets" \notin DOMAIN context
    /\ \A n \in DOMAIN renders :
          IF renders[n].what = "input"
          THEN /\ "secrets" \in DOMAIN renders[n].context
               /\ renders[n].context.secrets = task.secrets
          ELSE "secrets" \notin DOMAIN renders[n].context
    /\ \A n \in DOMAIN handlerCalls :
          "token" \in DOMAIN handlerCalls[n].input.o =>
              handlerCalls[n].input.o.token = Text("Bearer s3cr3t")
    /\ result.kind = "returned" => "auth" \notin DOMAIN result.output.o

C7_Witness ==
    /\ pc = "done"
    /\ result.kind = "returned"
    /\ \E n \in DOMAIN renders : renders[n].what = "if"
    /\ \E n \in DOMAIN renders : renders[n].what = "input"
    /\ \E n \in DOMAIN renders : renders[n].what = "output"
    /\ \E n \in DOMAIN handlerCalls : "token" \in DOMAIN handlerCalls[n].input.o

\* C8: context.steps only grows, in step order, and no write replaces an entry,
\* also when several steps carry the same id.
C8_StepsWrittenOnce ==
    wsCreated =>
        /\ \A n \in DOMAIN writes : ~writes[n].replaced
        /\ \A n, m \in DOMAIN writes : n < m => writes[n].step < writes[m].step
        /\ DOMAIN context.steps.o = {writes[n].id : n \in DOMAIN writes}

Terminal == {"completed", "failed", "skipped"}

\* C9: when the stepStart of step N+1 begins, the record of step N's terminal
\* outcome has been emitted and its emission has completed.
C9_StepsStrictlySequential ==
    pc = "stepStart" /\ i > 1 =>
        \E n \in delivered : emitted[n].step = i - 1 /\ emitted[n].status \in Terminal

\* C10: when a step fails by resolution, validation or its handler, the step error
\* counter and timer and the task's failed record, error counter and timer are
\* recorded before execute raises that same error.
C10_FailureRecorded ==
    err.at \in StepFailure /\ pc \in {"finally", "done"} =>
        /\ counters.stepErrors[task.steps[err.step].name] = 1
        /\ stepTimers[err.step] = "failed"
        /\ \E n \in delivered :
              /\ emitted[n].step = err.step
              /\ emitted[n].stepId = task.steps[err.step].id
              /\ emitted[n].status = "failed"
        /\ counters.taskErrors = 1
        /\ taskTimer = "failed"
        /\ pc = "done" => result.kind = "threw" /\ result.err = err

C10_Witness ==
    /\ pc = "done"
    /\ result.kind = "threw"
    /\ result.err.at = "resolve"
    /\ counters.taskErrors = 1
    /\ stepTimers[result.err.step] = "failed"

\* C11: every execute call ends with exactly one task-level outcome recorded: a
\* task failure (error counter and timer) whenever it raises, a task success
\* whenever it returns, never both nor neither, the task timer stopped once.
C11_OneTaskOutcome ==
    pc = "done" =>
        /\ result.kind = "threw" =>
              /\ counters.taskErrors = 1
              /\ counters.taskSuccesses = 0
              /\ taskTimer = "failed"
        /\ result.kind = "returned" =>
              /\ counters.taskSuccesses = 1
              /\ counters.taskErrors = 0
              /\ taskTimer = "ok"

\* The leaves of a render input, each with what stands at its place in the result
\* (undefined when nothing does).
RECURSIVE LeafPairs(_, _)
LeafPairs(in, out) ==
    CASE in.k = "object" /\ out.k = "object" ->
            UNION {LeafPairs(in.o[n], IF n \in DOMAIN out.o THEN out.o[n] ELSE Undef) :
                     n \in DOMAIN in.o}
      [] in.k = "array" /\ out.k = "array" ->
            UNION {LeafPairs(in.a[j], IF j \in DOMAIN out.a THEN out.a[j] ELSE Undef) :
                     j \in DOMAIN in.a}
      [] OTHER -> {[in |-> in, out |-> out]}

Rendered == rOutput # NotCalled
Count == Lookup(rContext, CountPath)
WholeExpression(v) == v.k = "string" /\ Len(v.s) = 1 /\ v.s[1].t = "var"
MixedText(v) == v.k = "string" /\ Len(v.s) = 2 /\ v.s[1].t = "data" /\ v.s[2].t = "var"
Structured == {"number", "boolean", "object", "array"}

\* C12: a string leaf that is exactly one template expression renders to the
\* structured value the expression evaluates to, and a leaf with literal text
\* around the expression renders to the string of the text and the printed value.
C12_TypePreserved ==
    Rendered =>
        \A l \in LeafPairs(rInput, rOutput) :
            /\ WholeExpression(l.in) /\ Count.k \in Structured => l.out = Count
            /\ MixedText(l.in) /\ Count.k = "number" =>
                  l.out = Text(l.in.s[1].c \o ToString(Count.n))

\* C13: no string leaf whose rendering yields the empty string stays in the
\* result: the result of render has no empty-string leaf.
C13_EmptyLeafDropped ==
    Rendered =>
        \A l \in LeafPairs(rInput, rOutput) :
            /\ l.out # Text("")
            /\ l.in.k = "string" /\ Count = Text("") /\ (WholeExpression(l.in) \/ l.in = Text(""))
                  => l.out = Undef

RECURSIVE TemplateFree(_)
TemplateFree(v) ==
    CASE v.k = "string" -> \A j \in DOMAIN v.s : v.s[j].t = "data"
      [] v.k = "object" -> \A n \in DOMAIN v.o : TemplateFree(v.o[n])
      [] v.k = "array" -> \A j \in DOMAIN v.a : TemplateFree(v.a[j])
      [] OTHER -> TRUE

RECURSIVE NoEmptyString(_)
NoEmptyString(v) ==
    CASE v.k = "string" -> v.s # <<>>
      [] v.k = "object" -> \A n \in DOMAIN v.o : NoEmptyString(v.o[n])
      [] v.k = "array" -> \A j \in DOMAIN v.a : NoEmptyString(v.a[j])
      [] OTHER -> TRUE

\* C14 as stated: render returns a value equal to its input for every value
\* without template expression, empty strings included.
C14_TemplateFreeUnchanged ==
    Rendered /\ TemplateFree(rInput) => rOutput = rInput

\* C14 as amended: render returns a value equal to its input for every value
\* without template expression and without empty string; an empty-string leaf of
\* such a value is dropped and every other leaf is kept.
C14_TemplateFreeNonEmptyUnchanged ==
    Rendered /\ TemplateFree(rInput) =>
        /\ NoEmptyString(rInput) => rOutput = rInput
        /\ \A l \in LeafPairs(rInput, rOutput) :
              l.out = IF l.in = Text("") THEN Undef ELSE l.in

C14_Witness ==
    /\ Rendered
    /\ rInput = Obj([a |-> Obj([b |-> Text("x")])])
    /\ rOutput = rInput

\* C15: a failure on one string leaf never makes render raise: the failure is
\* logged, the leaf is rendered by plain templating, and keeps its original string
\* when that fails too; the other leaves are rendered as without the failure.
C15_LeafFailureIsLocal ==
    Rendered =>
        /\ rOutput # Threw
        /\ \A l \in LeafPairs(rInput, rOutput) :
              /\ l.out # Threw
              /\ l.in.k = "string" /\ (\E j \in DOMAIN l.in.s : l.in.s[j].t \in {"raise", "unclosed"})
                    => l.out = l.in
              /\ l.in \in {Str(<<Raise>>), Str(<<Unclosed>>)} => l.in \in rLogged
              /\ l.in = Str(<<VarNl(CountPath)>>) /\ Count = Text("x")
                    => l.out = Text("x") /\ l.in \in rLogged
              /\ l.in = Str(<<Var(CountPath)>>) /\ Count \in CountValues => l.out = Count
              /\ l.in = Str(<<Data("prefix-"), Var(CountPath)>>) /\ Count = Num(3)
                    => l.out = Text("prefix-3")
              /\ l.in \in {Num(3), Bool(FALSE), Null, Text("x")} => l.out = l.in
        /\ \A v \in rLogged : v \in {Str(<<Raise>>), Str(<<Unclosed>>), Str(<<VarNl(CountPath)>>)}

C15_Witness ==
    /\ Rendered
    /\ rInput = Obj([a |-> Str(<<Raise>>), b |-> Str(<<Var(CountPath)>>)])
    /\ Count = Num(3)
    /\ rOutput = Obj([a |-> Str(<<Raise>>), b |-> Num(3)])
    /\ rLogged = {Str(<<Raise>>)}

\* The step whose handler a temporary directory was handed to.
StepOfDir(d) == d.suffix[1]

Completed(j) ==
    \E n \in DOMAIN emitted : emitted[n].step = j /\ emitted[n].status = "completed"

\* C16: when a handler has returned, every temporary directory it obtained is
\* removed before the step's output is captured and before its success is
\* recorded; when the handler throws, none of the step's directories is removed.
C16_TmpDirsRemovedOnSuccess ==
    /\ \A d \in fsDirs : ~Written(StepOfDir(d)) /\ ~Completed(StepOfDir(d))
    /\ err.at = "handler" => \A j \in DOMAIN tmpDirs : tmpDirs[j] \in fsDirs

C16_Witness ==
    /\ pc = "done"
    /\ err.at = "handler"
    /\ err.step = 2
    /\ task.steps[1].action \in UsesTmpDirs
    /\ Completed(1)
    /\ Written(1)
    /\ Len(tmpDirs) = MaxTmpDirs
    /\ Cardinality(fsDirs) = MaxTmpDirs

\* C17: every temporary directory handed to a handler lies inside the workspace
\* directory, so none exists any more when execute has exited.
C17_NoTmpDirAfterExit ==
    /\ \A d \in fsDirs : d.parent = "workspacePath"
    /\ pc = "done" => fsDirs = {}

SkippedDryRun(j) ==
    \E n \in DOMAIN emitted :
        /\ emitted[n].step = j
        /\ emitted[n].status = "skipped"
        /\ emitted[n].message = "Skipping because action does not support dry-run"

\* The output step j left in context.steps.
OutputOf(j) == writes[CHOOSE n \in DOMAIN writes : writes[n].step = j].output

\* C18: when the condition or the input of step k is rendered, context.steps holds
\* an entry, with that step's output, exactly for each earlier step that completed
\* or was skipped for dry-run, and none for step k itself, for a later step, for a
\* step skipped on its condition or for a step that failed.
C18_StepOutputVisibility ==
    \A n \in DOMAIN renders :
        renders[n].what \in {"if", "input"} =>
            LET k == renders[n].step
                seen == renders[n].context.steps.o
                visible == {j \in 1..(k - 1) : Completed(j) \/ SkippedDryRun(j)}
            IN /\ task.steps[k].id \notin DOMAIN seen
               /\ DOMAIN seen = {task.steps[j].id : j \in visible}
               /\ \A j \in visible : seen[task.steps[j].id] = Obj([output |-> OutputOf(j)])

\* C19: every terminal operation of a step stops the timer its stepStart began:
\* once the iteration of a step is over its timer has been observed, and no step
\* timer is running when execute has exited.
C19_StepTimersStopped ==
    \A j \in DOMAIN stepTimers :
        j < i \/ pc = "done" => stepTimers[j] \in {"ok", "failed"}

RecordsOf(j) == {n \in DOMAIN emitted : emitted[n].step = j}

C21_CheckOrder ==
    \A j \in DOMAIN stepTimers :
        LET s == task.steps[j]
            falsy == s.if # Undef /\ ~isTruthy(render(s.if, Obj(ContextBefore(j))))
        IN /\ s.action \notin DOMAIN Registry =>
                 IF falsy THEN ~(err.at = "resolve" /\ err.step = j)
                 ELSE err = NotFoundError(j)
           /\ SkippedDryRun(j) =>
                 /\ \A n \in DOMAIN renders :
                       ~(renders[n].what = "input" /\ renders[n].step = j)
                 /\ ~(err.at = "validate" /\ err.step = j)

\* The names the handler of the step has called output with.
CalledNames == {outputCalls[n].name : n \in DOMAIN outputCalls}

\* The last output call for a name.
LastCall(name) ==
    outputCalls[CHOOSE n \in DOMAIN outputCalls :
                    /\ outputCalls[n].name = name
                    /\ \A m \in DOMAIN outputCalls : outputCalls[m].name = name => m <= n]

\* C22: the output captured for a step whose handler returned maps each name the
\* handler called output with to the value of its last call for that name and holds
\* no other name, so none that another step wrote.
C22_CapturedOutput ==
    pc = "markSuccessful" =>
        LET captured == context.steps.o[step.id].o.output
        IN /\ captured.k = "object"
           /\ DOMAIN captured.o = CalledNames
           /\ \A name \in CalledNames : captured.o[name] = LastCall(name).value

C22_Witness ==
    /\ pc = "markSuccessful"
    /\ i = 2
    /\ task.steps[1].id # step.id
    /\ Len(outputCalls) = 2
    /\ outputCalls[1].name = outputCalls[2].name
    /\ outputCalls[1].value # outputCalls[2].value
    /\ task.steps[1].id \in DOMAIN context.steps.o
    /\ LET first == context.steps.o[task.steps[1].id].o.output.o
           second == context.steps.o[step.id].o.output.o
       IN /\ DOMAIN first = {"url"}
          /\ DOMAIN second = {"url"}
          /\ first["url"] = outputCalls[1].value
          /\ second["url"] = outputCalls[2].value

\* C23: an entry of context.steps keeps the output that was captured into it: at
\* every moment context.steps is what the assignments made so far have put there,
\* and every rendering of a later step and of the task's output saw the entries as
\* they were captured, whatever a handler does with its output callback afterwards.
C23_CapturedOutputFrozen ==
    /\ "steps" \in DOMAIN context => context.steps = Obj(StepsOf(writes))
    /\ \A n \in DOMAIN renders :
          renders[n].context.steps =
              Obj(StepsOf(IF renders[n].what = "output" THEN writes
                          ELSE WritesBefore(renders[n].step)))

IsPage(y) == ~y.done
IsDoneReport(y) == y.done /\ ~y.failed
IsLastPage(y) == ~y.done /\ y.value.isLastPage

\* The offset of the caller: 0 when no options are given.
CallerStart == IF options.given THEN options.start ELSE 0

\* Requests are issued one at a time, each settled next() call but a done report
\* has issued one, and the responses are yielded once each, in request order.
OneRequestPerYield ==
    /\ Len(requests) =
          Cardinality({k \in DOMAIN yielded : ~IsDoneReport(yielded[k])})
              + (IF pending THEN 1 ELSE 0)
    /\ \A r \in DOMAIN requests : requests[r].after < Len(yielded) \/ pending
    /\ \A r, q \in DOMAIN requests : r < q => requests[r].after < requests[q].after
    /\ \A k \in DOMAIN yielded :
          ~IsDoneReport(yielded[k]) =>
              \E r \in DOMAIN requests :
                  /\ requests[r].after = k - 1
                  /\ IsPage(yielded[k]) => yielded[k].value.n = r

\* The offset request r must carry: the caller's for the first one, the
\* nextPageStart of the response before it, the same offset again after a rejected
\* request and, where `restarts`, 0 after a done report.
ExpectedStart(r, restarts) ==
    LET k == requests[r].after
    IN IF k = 0 THEN CallerStart
       ELSE IF IsPage(yielded[k]) THEN yielded[k].value.nextPageStart
       ELSE IF yielded[k].failed THEN requests[r - 1].start
       ELSE IF restarts THEN 0 ELSE -1

\* C25 as stated: requests go out one at a time, the first with the caller's offset
\* and each later one with the nextPageStart of the response before it; every
\* response is yielded once, in order, up to the first last page; then next()
\* reports done without a request, and every later next() reports done again.
C25_PagesThenDoneForever ==
    /\ OneRequestPerYield
    /\ \A r \in DOMAIN requests : requests[r].start = ExpectedStart(r, FALSE)
    /\ \A k \in DOMAIN yielded :
          IsDoneReport(yielded[k]) <=>
              k > 1 /\ (IsLastPage(yielded[k - 1]) \/ IsDoneReport(yielded[k - 1]))

\* C25 amended: as above up to the done report, which is made once; it resets the
\* iterator, so the next() call after a done report issues a request with offset 0
\* and the iteration starts over.  A rejected request makes next() reject and
\* leaves the offset as it was.
C25_PagesThenDoneOnce ==
    /\ OneRequestPerYield
    /\ \A r \in DOMAIN requests : requests[r].start = ExpectedStart(r, TRUE)
    /\ \A k \in DOMAIN yielded :
          IsDoneReport(yielded[k]) <=> k > 1 /\ IsLastPage(yielded[k - 1])

C25_Witness ==
    /\ options = [given |-> TRUE, start |-> 2]
    /\ Len(yielded) = 4
    /\ IsPage(yielded[1]) /\ ~IsLastPage(yielded[1]) /\ yielded[1].value.nextPageStart = 1
    /\ IsLastPage(yielded[2]) /\ yielded[2].value.nextPageStart = 2
    /\ IsDoneReport(yielded[3])
    /\ IsPage(yielded[4])
    /\ requests = <<[start |-> 2, after |-> 0], [start |-> 1, after |-> 1],
                    [start |-> 0, after |-> 3]>>

\* The fn calls made for an item.
CallsFor(item) == {n \in DOMAIN invocations : invocations[n].item = item}

\* The fn calls that have not settled.
Running == DOMAIN invocations \ settled

ItemSet == {items[k] : k \in DOMAIN items}

\* No pop() chain is left that could call fn.
Stopped == \A w \in DOMAIN workers : workers[w].st \in {"returned", "rejected"}

SomeRejected == \E w \in DOMAIN workers : workers[w].st = "rejected"

\* What holds of every call at every moment: fn is called with items of the
\* collection only, at most once each, at most count calls are unsettled, and the
\* promise is resolved only when every item has had its call and every call has
\* settled.
WorkersSafe ==
    /\ \A n \in DOMAIN invocations : invocations[n].item \in ItemSet
    /\ \A item \in ItemSet : Cardinality(CallsFor(item)) <= 1
    /\ Cardinality(Running) <= count
    /\ promise = "resolved" =>
          /\ \A item \in ItemSet : Cardinality(CallsFor(item)) = 1
          /\ Running = {}

\* C26 as stated: fn is invoked exactly once for every item, never more than count
\* invocations run at once, the promise resolves only after every invocation has
\* completed, and the call terminates.
C26_EveryItemOnce ==
    /\ []WorkersSafe
    /\ <>[](/\ Stopped
            /\ \A item \in ItemSet : Cardinality(CallsFor(item)) = 1)

\* C26 amended: at most once per item and at most count at once; the promise
\* resolves only after every item has been handled; the call terminates; when no
\* invocation rejects every item is handled exactly once and the promise resolves;
\* when one rejects the promise rejects and the worker that ran it takes no more
\* items, so that items stay unhandled once every worker has met a rejection.
C26_EveryItemOnceUnlessRejected ==
    /\ []WorkersSafe
    /\ [](promise = "rejected" => SomeRejected)
    /\ [](Stopped /\ queue # <<>> => \A w \in DOMAIN workers : workers[w].st = "rejected")
    /\ <>[](/\ Stopped
            /\ IF SomeRejected THEN promise = "rejected"
               ELSE /\ promise = "resolved"
                    /\ \A item \in ItemSet : Cardinality(CallsFor(item)) = 1)

C26_Witness ==
    /\ count = 2
    /\ Len(items) = 4
    /\ Stopped
    /\ promise = "rejected"
    /\ Len(invocations) = 3
    /\ queue = <<1>>

\* The state of one execute call is what the call alone produces from its task:
\* the context holds the task's parameters and the outputs of its own steps, in
\* step order; every rendering saw the task's parameters and the entries of its own
\* earlier steps; the result is the task's rendered output or the call's own error;
\* the workspace exists from ensureDir to the finally block of this call.
AsIfAlone(l) ==
    /\ "steps" \in DOMAIN l.context =>
          l.context = [parameters |-> l.task.parameters,
                       steps |-> Obj(StepsOf(l.writes)), user |-> Undef]
    /\ \A n, m \in DOMAIN l.writes : n < m => l.writes[n].step < l.writes[m].step
    /\ \A n, m \in DOMAIN l.handlerCalls :
          n < m => l.handlerCalls[n].step < l.handlerCalls[m].step
    /\ \A n \in DOMAIN l.handlerCalls : l.handlerCalls[n].secrets = l.task.secrets
    /\ \A n \in DOMAIN l.renders :
          /\ l.renders[n].context.parameters = l.task.parameters
          /\ l.renders[n].context.steps =
                Obj(StepsOf(IF l.renders[n].what = "output" THEN l.writes
                            ELSE SelectSeq(l.writes,
                                           LAMBDA w : w.step < l.renders[n].step)))
    /\ l.pc = "done" =>
          IF l.result.kind = "returned"
          THEN l.result.output = render(l.task.output, Obj(l.context))
          ELSE l.result.err = IF isValidTaskSpec(l.task) THEN l.err ELSE VersionError
    /\ l.wsExists <=> l.workspace \in workspaces
    /\ l.wsExists <=> l.wsCreated /\ l.pc # "done"

\* The temporary directories made for the call with workspace name ws.
DirsOf(dirs, ws) ==
    {d \in dirs : d.prefix \in {ws \o "_step-" \o id \o "-" : id \in StepIds}}

\* A step of the running call leaves the other call as it is: its state, its
\* workspace and its temporary directories; the counters, which both calls add to,
\* never decrease.
LeavesOtherAlone ==
    /\ counters'.taskSuccesses >= counters.taskSuccesses
    /\ counters'.taskErrors >= counters.taskErrors
    /\ \A n \in StepIds :
          /\ counters'.stepSuccesses[n] >= counters.stepSuccesses[n]
          /\ counters'.stepErrors[n] >= counters.stepErrors[n]
    /\ workspace' = workspace =>
          /\ other' = other
          /\ (other.workspace \in workspaces') <=> (other.workspace \in workspaces)
          /\ DirsOf(fsDirs', other.workspace) = DirsOf(fsDirs, other.workspace)

\* C24: with two interleaved execute calls on one runner, distinct tasks and
\* distinct workspace names, the context, step outputs, step order, result and
\* workspace of each call are as if it ran alone; a call changes nothing of the
\* other but the counters, which only grow, and never removes its workspace.
C24_TaskIsolation ==
    /\ [](AsIfAlone(locals) /\ AsIfAlone(other))
    /\ [][LeavesOtherAlone]_vars

C24_Witness ==
    /\ pc = "handler"
    /\ other.pc = "removeTmp"
    /\ workspaces = {"ws1", "ws2"}
    /\ task.steps[1].id = other.task.steps[1].id
    /\ tmpDirs # <<>>
    /\ other.tmpDirs # <<>>
    /\ DirsOf(fsDirs, workspace) # {}
    /\ DirsOf(fsDirs, other.workspace) # {}


====
